---- MODULE Spec2Model ----
(***************************************************************************)
(* Model of json_validator.py: check_for_null_values(json_data,            *)
(* optional_paths), the breadth-first walk that reports the paths of the   *)
(* None values of a parsed JSON document.                                  *)
(*                                                                         *)
(* Python values are records tagged by "kind".  Paths are real strings,    *)
(* built with string concatenation, so "a" \o "." \o "b" and the key       *)
(* "a.b" are the same path, as they are in the program.                    *)
(***************************************************************************)
EXTENDS Naturals, Sequences, FiniteSets, TLC

VARIABLES
  json_data,        \* argument: the document
  optional_paths,   \* argument: None or a list of path strings
  items_to_check,   \* the deque of (current_item, current_path)
  invalid_fields,   \* the list of reported paths
  result,           \* the returned dict
  pc,               \* "start", "loop" or "done"
  enqueued,         \* history: positions put on the deque, in order
  dequeued,         \* history: positions taken off the deque, in order
  inspected,        \* history: one record per (key, value) / (index, element) looked at
  invalid_pos       \* history: the position behind each entry of invalid_fields

vars == <<json_data, optional_paths, items_to_check, invalid_fields, result, pc,
          enqueued, dequeued, inspected, invalid_pos>>

----------------------------------------------------------------------------
(* Python values *)

None == [kind |-> "null"]
Num(n) == [kind |-> "num", num |-> n]
Str(s) == [kind |-> "str", str |-> s]
Bool(b) == [kind |-> "bool", bool |-> b]
\* a list: its elements in order
List(es) == [kind |-> "list", elems |-> es]
\* a dict: its (key, value) items in iteration order
Dict(its) == [kind |-> "dict", items |-> its]
KV(k, v) == [key |-> k, value |-> v]

\* isinstance(x, dict), isinstance(x, list), isinstance(x, (dict, list))
IsDict(x) == x.kind = "dict"
IsList(x) == x.kind = "list"
\* (faulty variant: a list is not taken for a container)
IsContainerDictOnly(x) == IsDict(x)
IsContainer(x) == IsDict(x) \/ IsList(x)

\* bool(x): Python truthiness
Truthy(x) ==
  CASE x.kind = "null" -> FALSE
    [] x.kind = "num"  -> x.num # 0
    [] x.kind = "str"  -> x.str # ""
    [] x.kind = "bool" -> x.bool
    [] x.kind = "list" -> x.elems # <<>>
    [] x.kind = "dict" -> x.items # <<>>

\* x is None  (faulty variant: "not x" in its place)
IsNoneFalsy(x) == ~Truthy(x)
IsNone(x) == x.kind = "null"

\* p in optional_paths (a list of strings)
InList(p, lst) == \E i \in 1..Len(lst.elems) : lst.elems[i] = p

----------------------------------------------------------------------------
(* Path building *)

Digits == <<"0", "1", "2", "3", "4", "5", "6", "7", "8", "9">>

\* str(index) as the f-string formats it: decimal, no padding
RECURSIVE IntToStr(_)
IntToStr(n) ==
  IF n < 10 THEN Digits[n + 1]
  ELSE IntToStr(n \div 10) \o Digits[(n % 10) + 1]

\* f"{current_path}.{key}" if current_path else key
\* (faulty variants: the dot also under the root; the parent path left out)
DictPathAlwaysDot(current_path, key) == current_path \o "." \o key
DictPathKeyOnly(current_path, key) == key
DictPath(current_path, key) ==
  IF current_path # "" THEN current_path \o "." \o key ELSE key

\* f"{current_path}[{index}]"  (faulty variant: enumerate counting from 1)
ListPathOneBased(current_path, index) == current_path \o "[" \o IntToStr(index + 1) \o "]"
ListPath(current_path, index) == current_path \o "[" \o IntToStr(index) \o "]"

----------------------------------------------------------------------------
(* One pass of the for loop over a dequeued container *)

NumKids(x) ==
  IF IsDict(x) THEN Len(x.items) ELSE IF IsList(x) THEN Len(x.elems) ELSE 0

Child(x, i) == IF IsDict(x) THEN x.items[i].value ELSE x.elems[i]

\* the children of the dequeued entry e, in iteration order, each with the
\* path the loop body computes for it (enumerate counts from 0)
Kids(e) ==
  [i \in 1..NumKids(e.item) |->
     [value |-> Child(e.item, i),
      path  |-> IF IsDict(e.item)
                  THEN DictPath(e.path, e.item.items[i].key)
                  ELSE ListPath(e.path, i - 1),
      pos   |-> Append(e.pos, i),
      from  |-> e.pos,
      frompath |-> e.path]]

\* the if branch: value is None and path not in optional_paths
Reported(c, opt) == IsNone(c.value) /\ ~InList(c.path, opt)

\* the elif branch: reached only when the if branch was not taken
\* (faulty variant: a plain else, which pushes every other value)
PushedAll(c, opt) == ~Reported(c, opt)
Pushed(c, opt) == ~Reported(c, opt) /\ IsContainer(c.value)

\* what append puts on the deque for the children cs, what invalid_fields
\* gets for them, and their positions
QEntries(cs) == [i \in 1..Len(cs) |-> [item |-> cs[i].value, path |-> cs[i].path, pos |-> cs[i].pos]]
PathsOf(cs) == [i \in 1..Len(cs) |-> cs[i].path]
PositionsOf(cs) == [i \in 1..Len(cs) |-> cs[i].pos]

\* deque.popleft(): the entry taken and what is left
\* (faulty variants: pop(), which takes the newest entry; a look at the
\* oldest entry that leaves it on the deque)
PopRight(q) == [entry |-> q[Len(q)], rest |-> SubSeq(q, 1, Len(q) - 1)]
PopLeftKeep(q) == [entry |-> Head(q), rest |-> q]
PopLeft(q) == [entry |-> Head(q), rest |-> Tail(q)]

\* deque.append of the pushed children, in iteration order
Extend(q, es) == q \o es

----------------------------------------------------------------------------
(* The module's own data: valid_example, invalid_example, optional_paths *)

valid_example ==
  Dict(<<
    KV("user", Dict(<<
      KV("id", Num(12345)),
      KV("username", Str("alice123")),
      KV("email", Str("alice@example.com")),
      KV("profile", Dict(<<
        KV("first_name", Str("Alice")),
        KV("last_name", Str("Doe")),
        KV("age", Num(30)),
        KV("address", Dict(<<
          KV("street", Str("123 Main St")),
          KV("city", Str("Seattle")),
          KV("zipcode", Str("98101"))>>)),
        KV("preferences", Dict(<<
          KV("language", Str("English")),
          KV("notifications", Bool(TRUE))>>))>>)),
      KV("friends", List(<<
        Dict(<<
          KV("user_id", Num(67890)),
          KV("username", Str("bob234")),
          KV("email", Str("bob@example.com")),
          KV("profile", Dict(<<
            KV("first_name", Str("Bob")),
            KV("last_name", Str("Smith")),
            KV("age", Num(35)),
            KV("address", Dict(<<
              KV("street", Str("456 Oak Rd")),
              KV("city", Str("Portland")),
              KV("zipcode", Str("97201"))>>))>>))>>),
        Dict(<<
          KV("user_id", Num(11223)),
          KV("username", Str("charlie456")),
          KV("email", Str("charlie@example.com")),
          KV("profile", Dict(<<
            KV("first_name", Str("Charlie")),
            KV("last_name", Str("Brown")),
            KV("age", Num(25)),
            KV("address", Dict(<<
              KV("street", Str("789 Pine Ave")),
              KV("city", Str("Seattle")),
              KV("zipcode", Str("98102"))>>))>>))>>)>>))>>)),
    KV("orders", List(<<
      Dict(<<
        KV("order_id", Str("A1234")),
        KV("items", List(<<
          Dict(<<
            KV("product", Str("Laptop")),
            KV("price", Num(1200)),
            KV("quantity", Num(1))>>),
          Dict(<<
            KV("product", Str("Mouse")),
            KV("price", Num(25)),
            KV("quantity", Num(1))>>)>>)),
        KV("status", Str("shipped"))>>),
      Dict(<<
        KV("order_id", Str("A5678")),
        KV("items", List(<<
          Dict(<<
            KV("product", Str("Tablet")),
            KV("price", Num(500)),
            KV("quantity", Num(2))>>),
          Dict(<<
            KV("product", Str("Headphones")),
            KV("price", Num(50)),
            KV("quantity", Num(1))>>)>>)),
        KV("status", Str("delivered"))>>)>>))>>)

invalid_example ==
  Dict(<<
    KV("user", Dict(<<
      KV("id", Num(12345)),
      KV("username", Str("alice123")),
      KV("email", Str("alice@example.com")),
      KV("profile", Dict(<<
        KV("first_name", Str("Alice")),
        KV("last_name", Str("Doe")),
        KV("age", None),
        KV("address", Dict(<<
          KV("street", Str("123 Main St")),
          KV("city", None),
          KV("zipcode", Str("98101"))>>)),
        KV("preferences", Dict(<<
          KV("language", Str("English")),
          KV("notifications", Bool(TRUE))>>))>>)),
      KV("friends", List(<<
        Dict(<<
          KV("user_id", Num(67890)),
          KV("username", Str("bob234")),
          KV("email", Str("bob@example.com")),
          KV("profile", Dict(<<
            KV("first_name", Str("Bob")),
            KV("last_name", Str("Smith")),
            KV("age", Num(35)),
            KV("address", Dict(<<
              KV("street", Str("456 Oak Rd")),
              KV("city", Str("Portland")),
              KV("zipcode", Str("97201"))>>))>>))>>),
        Dict(<<
          KV("user_id", Num(11223)),
          KV("username", Str("charlie456")),
          KV("email", Str("charlie@example.com")),
          KV("profile", Dict(<<
            KV("first_name", Str("Charlie")),
            KV("last_name", Str("Brown")),
            KV("age", None),
            KV("address", Dict(<<
              KV("street", Str("789 Pine Ave")),
              KV("city", Str("Seattle")),
              KV("zipcode", None)>>))>>))>>)>>))>>)),
    KV("orders", List(<<
      Dict(<<
        KV("order_id", Str("A1234")),
        KV("items", List(<<
          Dict(<<
            KV("product", Str("Laptop")),
            KV("price", Num(1200)),
            KV("quantity", Num(1))>>),
          Dict(<<
            KV("product", Str("Mouse")),
            KV("price", Num(25)),
            KV("quantity", Num(1))>>)>>)),
        KV("status", Str("shipped"))>>),
      Dict(<<
        KV("order_id", Str("A5678")),
        KV("items", List(<<
          Dict(<<
            KV("product", Str("Tablet")),
            KV("price", Num(500)),
            KV("quantity", Num(2))>>),
          Dict(<<
            KV("product", Str("Headphones")),
            KV("price", Num(50)),
            KV("quantity", Num(1))>>)>>)),
        KV("status", Str("delivered"))>>)>>))>>)

optional_paths_example ==
  List(<<"user.profile.address.city",
         "user.friends[1].profile.address.zipcode">>)

----------------------------------------------------------------------------
(* Inputs.  The documents tried are every value made of at most MaxNodes   *)
(* values, its dict keys drawn from "a" and "b" or from "a" and one key    *)
(* that is empty or holds "." or "[", each with a few allow-lists; and the *)
(* module's own examples with the module's allow-list.                     *)

MaxNodes == 4

PlainKeys == {"a", "b"}
SpecialKeys == {"", "a.a", "a[0]"}

\* the values with no children: None, a falsy number, an empty list, an empty dict
Leaves == {None, Num(0), List(<<>>), Dict(<<>>)}

\* the orders in which n distinct keys of K can be inserted in a dict
KeySeqs(K, n) ==
  {ks \in [1..n -> K] : \A i, j \in 1..n : ks[i] = ks[j] => i = j}

\* the dicts over the children f, one per choice and order of keys
DictsOver(f, K) ==
  {Dict([i \in 1..Len(f) |-> KV(ks[i], f[i])]) : ks \in KeySeqs(K, Len(f))}

\* The one member of a one-member set.  Binding a value as "x \in {e}"
\* has e worked out once, however often x is used.
The(S) == CHOOSE x \in S : TRUE

\* tab.trees[m] being the values made of exactly m values, for m up to some
\* k, and tab.forests[m] the sequences of values that hold m values in all,
\* for m below k: the same table with k + 1 for k
Grow(tab, K) ==
  LET k == Len(tab.trees) IN
  The({[trees   |-> Append(tab.trees,
                      {List(f) : f \in fs} \cup UNION {DictsOver(f, K) : f \in fs}),
        forests |-> Append(tab.forests, fs)] :
       fs \in {{<<t>> : t \in tab.trees[k]}
                 \cup UNION {{<<t>> \o f : t \in tab.trees[m],
                                           f \in tab.forests[k - m]} :
                               m \in 1..(k - 1)}}})

RECURSIVE Table(_, _)
Table(n, K) ==
  IF n = 1 THEN [trees |-> <<Leaves>>, forests |-> <<>>]
  ELSE The({Grow(tab, K) : tab \in {Table(n - 1, K)}})

\* the values made of at most n values (themselves included), dict keys from K
TreesUpTo(n, K) ==
  The({UNION {tab.trees[m] : m \in 1..n} : tab \in {Table(n, K)}})

Documents ==
  TreesUpTo(MaxNodes, PlainKeys)
  \cup UNION {TreesUpTo(MaxNodes, {"a", k}) : k \in SpecialKeys}
  \cup {Str("s"), Bool(TRUE)}

\* the optional_paths arguments tried with them: the default None, which
\* line 17 makes the empty list, and two lists
OptionalPathsInputs ==
  {None,
   List(<<"a", "[0]">>),
   List(<<"a.a", "", "a[0]", "a.a">>)}

\* {"items": [1, None, 3]}
items_example == Dict(<<KV("items", List(<<Num(1), None, Num(3)>>))>>)

ExampleDocuments == {valid_example, invalid_example, items_example}

ExampleOptionalPaths ==
  {None,
   List(<<>>),
   optional_paths_example,
   List(<<"items[1]", "user.profile.age">>)}

----------------------------------------------------------------------------
(* check_for_null_values *)

NoResult == [returned |-> FALSE]

Init ==
  /\ \/ json_data \in Documents /\ optional_paths \in OptionalPathsInputs
     \/ json_data \in ExampleDocuments /\ optional_paths \in ExampleOptionalPaths
  /\ items_to_check = <<>>
  /\ invalid_fields = <<>>
  /\ result = NoResult
  /\ pc = "start"
  /\ enqueued = <<>>
  /\ dequeued = <<>>
  /\ inspected = <<>>
  /\ invalid_pos = <<>>

\* lines 16-21: default the allow-list, seed the deque with (json_data, "")
Begin ==
  /\ pc = "start"
  /\ optional_paths' = IF IsNone(optional_paths) THEN List(<<>>) ELSE optional_paths
  /\ items_to_check' = <<[item |-> json_data, path |-> "", pos |-> <<>>]>>
  /\ invalid_fields' = <<>>
  /\ enqueued' = <<<<>>>>
  /\ pc' = "loop"
  /\ UNCHANGED <<json_data, result, dequeued, inspected, invalid_pos>>

\* while items_to_check
LoopDone(q) == q = <<>>

\* lines 24-40 for an entry e taken off the deque, rest being what is left:
\* every child is looked at once, in order; the reported ones go to
\* invalid_fields, the pushed ones to the back of the deque
Process(e, rest) ==
  LET kids == Kids(e)
      rep  == SelectSeq(kids, LAMBDA c : Reported(c, optional_paths))
      push == SelectSeq(kids, LAMBDA c : Pushed(c, optional_paths))
  IN /\ invalid_fields' = invalid_fields \o PathsOf(rep)
     /\ items_to_check' = Extend(rest, QEntries(push))
     /\ invalid_pos' = invalid_pos \o PositionsOf(rep)
     /\ enqueued' = enqueued \o PositionsOf(push)
     /\ dequeued' = Append(dequeued, e.pos)
     /\ inspected' = inspected \o kids
     /\ UNCHANGED <<json_data, optional_paths, result, pc>>

\* one iteration of the while loop, the entry taken being a dict (line 26)
ProcessDict ==
  /\ pc = "loop"
  /\ ~LoopDone(items_to_check)
  /\ LET p == PopLeft(items_to_check) IN
       /\ IsDict(p.entry.item)
       /\ Process(p.entry, p.rest)

\* one iteration of the while loop, the entry taken being a list (line 34)
ProcessList ==
  /\ pc = "loop"
  /\ ~LoopDone(items_to_check)
  /\ LET p == PopLeft(items_to_check) IN
       /\ ~IsDict(p.entry.item)
       /\ IsList(p.entry.item)
       /\ Process(p.entry, p.rest)

\* (faulty variant of ProcessScalar: the dropped entry is reported when it
\* is None)
ProcessScalarReportsRoot ==
  /\ pc = "loop"
  /\ ~LoopDone(items_to_check)
  /\ LET p == PopLeft(items_to_check) IN
       /\ ~IsDict(p.entry.item)
       /\ ~IsList(p.entry.item)
       /\ items_to_check' = p.rest
       /\ dequeued' = Append(dequeued, p.entry.pos)
       /\ invalid_fields' = IF IsNone(p.entry.item)
                              THEN Append(invalid_fields, p.entry.path)
                              ELSE invalid_fields
       /\ invalid_pos' = IF IsNone(p.entry.item)
                           THEN Append(invalid_pos, p.entry.pos)
                           ELSE invalid_pos
       /\ UNCHANGED <<json_data, optional_paths, result, pc, enqueued, inspected>>

\* one iteration of the while loop, the entry taken being neither: it is
\* dropped (this can only be the root, nothing else that is no dict or list
\* is ever pushed)
ProcessScalar ==
  /\ pc = "loop"
  /\ ~LoopDone(items_to_check)
  /\ LET p == PopLeft(items_to_check) IN
       /\ ~IsDict(p.entry.item)
       /\ ~IsList(p.entry.item)
       /\ items_to_check' = p.rest
       /\ dequeued' = Append(dequeued, p.entry.pos)
       /\ UNCHANGED <<json_data, optional_paths, invalid_fields, result, pc,
                      enqueued, inspected, invalid_pos>>

\* if invalid_fields  (faulty variant: more than one collected path asked for)
HasInvalidSeveral(fields) == Len(fields) > 1
HasInvalid(fields) == fields # <<>>

\* lines 42-43
ReturnError ==
  /\ pc = "loop"
  /\ LoopDone(items_to_check)
  /\ HasInvalid(invalid_fields)
  /\ result' = [status |-> "error", invalid_fields |-> invalid_fields]
  /\ pc' = "done"
  /\ UNCHANGED <<json_data, optional_paths, items_to_check, invalid_fields,
                 enqueued, dequeued, inspected, invalid_pos>>

\* line 45
ReturnSuccess ==
  /\ pc = "loop"
  /\ LoopDone(items_to_check)
  /\ ~HasInvalid(invalid_fields)
  /\ result' = [status |-> "success"]
  /\ pc' = "done"
  /\ UNCHANGED <<json_data, optional_paths, items_to_check, invalid_fields,
                 enqueued, dequeued, inspected, invalid_pos>>

Next ==
  \/ Begin
  \/ ProcessDict
  \/ ProcessList
  \/ ProcessScalar
  \/ ReturnError
  \/ ReturnSuccess

Spec == Init /\ [][Next]_vars

\* the call runs to its return: no step of it waits on anything
FairSpec == Spec /\ WF_vars(Next)

----------------------------------------------------------------------------
(* What the properties speak of: the positions of a document (the child    *)
(* numbers leading from the root to a value), the value at a position and  *)
(* the path string of a position.                                          *)

\* the value is null; the value is a dict or a list
IsNull(x) == x.kind = "null"
IsHolder(x) == x.kind \in {"dict", "list"}

RECURSIVE Positions(_)
Positions(x) ==
  {<<>>} \cup UNION {{<<i>> \o p : p \in Positions(Child(x, i))} : i \in 1..NumKids(x)}

RECURSIVE ValueAt(_, _)
ValueAt(x, p) == IF p = <<>> THEN x ELSE ValueAt(Child(x, Head(p)), Tail(p))

RECURSIVE PathFrom(_, _, _)
PathFrom(x, cur, p) ==
  IF p = <<>> THEN cur
  ELSE LET i == Head(p) IN
       PathFrom(Child(x, i),
                IF IsDict(x) THEN DictPath(cur, x.items[i].key) ELSE ListPath(cur, i - 1),
                Tail(p))

PathOf(p) == PathFrom(json_data, "", p)
Parent(p) == SubSeq(p, 1, Len(p) - 1)

AllPositions == Positions(json_data)
\* the positions below the root
Below == AllPositions \ {<<>>}
NullPositions == {p \in AllPositions : IsNull(ValueAt(json_data, p))}

Count(seq, v) == Cardinality({i \in DOMAIN seq : seq[i] = v})

HasChar(s, ch) == \E i \in 1..Len(s) : SubSeq(s, i, i) = ch
\* a key that is not empty and holds neither "." nor "["
PlainKey(k) == k # "" /\ ~HasChar(k, ".") /\ ~HasChar(k, "[")
AllKeysPlain ==
  \A p \in AllPositions :
    IsDict(ValueAt(json_data, p)) =>
      \A i \in 1..NumKids(ValueAt(json_data, p)) :
        PlainKey(ValueAt(json_data, p).items[i].key)

Returned == pc = "done"
\* the allow-list the call works with (None stands for the empty list)
Allowed(path) == ~IsNull(optional_paths) /\ InList(path, optional_paths)

----------------------------------------------------------------------------
(* C1 *)

\* C1 as stated: when the call has returned, every null value of the
\* document whose path is not in the allow-list has its path exactly once in
\* invalid_fields (stated here of the null values below the root only).
C1_EveryNullExactlyOnce ==
  Returned =>
    \A p \in NullPositions \cap Below :
      ~Allowed(PathOf(p)) => Count(invalid_fields, PathOf(p)) = 1

\* C1 amended: when the call has returned, every path string that is not in
\* the allow-list is in invalid_fields as many times as the document has null
\* values at that path below the root (so exactly once when no other null
\* value has the same path string, which is always so when every key is plain);
\* a null root is not reported.
C1_EveryNullReportedOnceEach ==
  Returned =>
    /\ \A p \in NullPositions \cap Below :
         ~Allowed(PathOf(p)) =>
           Count(invalid_fields, PathOf(p)) =
             Cardinality({q \in NullPositions \cap Below : PathOf(q) = PathOf(p)})
    /\ AllKeysPlain =>
         \A p \in NullPositions \cap Below :
           ~Allowed(PathOf(p)) => Count(invalid_fields, PathOf(p)) = 1
    /\ IsNull(json_data) => invalid_fields = <<>>

\* a returned call that reported a null value two levels below the root
\* and passed over an allowed one
C1_Witness ==
  /\ Returned
  /\ invalid_fields # <<>>
  /\ \E p \in NullPositions : Len(p) = 2 /\ ~Allowed(PathOf(p))
  /\ \E p \in NullPositions : Allowed(PathOf(p))

----------------------------------------------------------------------------
(* C2 *)

\* C2 as stated: every entry of invalid_fields is the path of a null value
\* that is not in the allow-list, no null value whose path is in the
\* allow-list is reported, and no path of a value that is not null is reported.
C2_OnlyDisallowedNulls ==
  \A i \in DOMAIN invalid_fields :
    /\ \E p \in NullPositions : PathOf(p) = invalid_fields[i]
    /\ ~Allowed(invalid_fields[i])
    /\ \A q \in AllPositions :
         ~IsNull(ValueAt(json_data, q)) => PathOf(q) # invalid_fields[i]

\* C2 amended: every entry of invalid_fields is the path of a null value
\* below the root and is not in the allow-list, so a null value whose path is
\* in the allow-list is never reported, at any depth; the path of a value that
\* is not null is reported only when a null value has the same path string,
\* which never happens in a document whose keys are all plain.
C2_OnlyDisallowedNullPaths ==
  \A i \in DOMAIN invalid_fields :
    /\ \E p \in NullPositions \cap Below : PathOf(p) = invalid_fields[i]
    /\ ~Allowed(invalid_fields[i])
    /\ AllKeysPlain =>
         \A q \in AllPositions :
           ~IsNull(ValueAt(json_data, q)) => PathOf(q) # invalid_fields[i]

\* a returned call on a document with an allowed null value two levels
\* down, a value that is not null, and a null value that was reported
C2_Witness ==
  /\ Returned
  /\ invalid_fields # <<>>
  /\ \E p \in NullPositions : Len(p) >= 2 /\ Allowed(PathOf(p))
  /\ \E q \in Below : ~IsNull(ValueAt(json_data, q))

----------------------------------------------------------------------------
(* C5 *)

\* the path strings the traversal has given out: "" to the root and one to
\* each child it has looked at
PathsGiven == <<[pos |-> <<>>, path |-> ""]>> \o inspected

\* C5 as stated: no two positions of a document get the same path string,
\* whatever the keys.
C5_PathsUnique ==
  \A i, j \in DOMAIN PathsGiven :
    PathsGiven[i].path = PathsGiven[j].path => i = j

\* C5 amended: in a document whose keys are all non-empty and hold neither
\* "." nor "[", no two positions get the same path string.
C5_PathsUniqueForPlainKeys ==
  AllKeysPlain =>
    \A i, j \in DOMAIN PathsGiven :
      PathsGiven[i].path = PathsGiven[j].path => i = j

\* a returned call that gave paths to values at three levels of a document
\* with plain keys, a dict and a list among them
C5_Witness ==
  /\ Returned
  /\ AllKeysPlain
  /\ \E i, j \in DOMAIN inspected :
       /\ Len(inspected[i].pos) = 1 /\ Len(inspected[j].pos) = 2
       /\ IsDict(ValueAt(json_data, inspected[j].from))
  /\ \E p \in AllPositions : IsList(ValueAt(json_data, p)) /\ NumKids(ValueAt(json_data, p)) > 0

----------------------------------------------------------------------------
(* C3 *)

\* the call of line 233: invalid_example with the module's optional_paths
ExampleCallReturned ==
  /\ Returned
  /\ json_data = invalid_example
  /\ optional_paths = optional_paths_example

\* C3 as stated: check_for_null_values(invalid_example, optional_paths)
\* returns status "error" with invalid_fields
\* ["user.profile.age", "user.profile.address.city"].
C3_ExampleReportsCity ==
  ExampleCallReturned =>
    result = [status |-> "error",
              invalid_fields |-> <<"user.profile.age", "user.profile.address.city">>]

\* C3 amended: check_for_null_values(invalid_example, optional_paths) returns
\* status "error" with invalid_fields
\* ["user.profile.age", "user.friends[1].profile.age"], in that order: the two
\* null values on the allow-list (user.profile.address.city and
\* user.friends[1].profile.address.zipcode) are not reported.
C3_ExampleReportsAges ==
  ExampleCallReturned =>
    result = [status |-> "error",
              invalid_fields |-> <<"user.profile.age", "user.friends[1].profile.age">>]

\* the call of line 233 has returned
C3_Witness == ExampleCallReturned /\ result # NoResult

----------------------------------------------------------------------------
(* C4 *)

----------------------------------------------------------------------------
(* C6 *)

\* the last child number of a position
LastStep(p) == p[Len(p)]

\* C6: every child looked at got its path from its parent's path by the
\* rules: the key alone under an empty parent path, parent path "." key under
\* any other, parent path "[" zero-based index "]" for the element of a list;
\* the parent path used is "" for the root and otherwise the path the parent
\* itself was given; and the null at index 1 of the list under "items" is
\* reported as "items[1]".
C6_PathRules ==
  /\ \A n \in DOMAIN inspected :
       LET c      == inspected[n]
           parent == ValueAt(json_data, c.from)
           k      == LastStep(c.pos)
       IN /\ c.from = Parent(c.pos)
          /\ IF c.from = <<>> THEN c.frompath = ""
             ELSE \E m \in 1..(n - 1) :
                    inspected[m].pos = c.from /\ inspected[m].path = c.frompath
          /\ IsDict(parent) /\ c.frompath = "" =>
               c.path = parent.items[k].key
          /\ IsDict(parent) /\ c.frompath # "" =>
               c.path = c.frompath \o "." \o parent.items[k].key
          /\ IsList(parent) =>
               c.path = c.frompath \o "[" \o ToString(k - 1) \o "]"
  /\ (Returned /\ json_data = items_example /\ ~Allowed("items[1]")) =>
       result = [status |-> "error", invalid_fields |-> <<"items[1]">>]

\* a returned call that built a path of each kind: a top-level key, a key
\* under a non-empty path, an element of a top-level list and an element at
\* index 1 under a non-empty path
C6_Witness ==
  /\ Returned
  /\ \E n \in DOMAIN inspected :
       /\ inspected[n].frompath # ""
       /\ IsDict(ValueAt(json_data, inspected[n].from))
  /\ \E n \in DOMAIN inspected :
       /\ inspected[n].frompath # ""
       /\ IsList(ValueAt(json_data, inspected[n].from))
       /\ LastStep(inspected[n].pos) = 2
  /\ \E n \in DOMAIN inspected : inspected[n].frompath = ""

----------------------------------------------------------------------------
(* C7 *)

\* C7: when the root is None or any other value that is no dict and no
\* list, the call returns status "success", whatever the allow-list, and
\* nothing is reported.
C7_ScalarRootSucceeds ==
  (Returned /\ ~IsHolder(json_data)) =>
    /\ result = [status |-> "success"]
    /\ invalid_fields = <<>>

\* a call on a None root that has returned
C7_Witness ==
  /\ Returned
  /\ IsNull(json_data)
  /\ result # NoResult

----------------------------------------------------------------------------
(* C8 *)

\* where position p stands in a sequence of positions that holds it
IndexIn(seq, p) == CHOOSE i \in DOMAIN seq : seq[i] = p

\* C8: invalid_fields is in breadth-first order.  The containers leave the
\* deque in the order they entered it, the root first with path "", and the
\* deque holds the entered ones not yet taken; entry i of invalid_fields is the
\* path of the null value behind it; of two reported null values, the earlier
\* one lies in a container taken off the deque no later and at no greater
\* depth, and within one container the earlier one comes first in the
\* container's iteration order.
C8_BreadthFirstOrder ==
  /\ Len(dequeued) <= Len(enqueued)
  /\ dequeued = SubSeq(enqueued, 1, Len(dequeued))
  /\ PositionsOf(items_to_check) = SubSeq(enqueued, Len(dequeued) + 1, Len(enqueued))
  /\ pc # "start" => enqueued[1] = <<>>
  /\ Len(invalid_pos) = Len(invalid_fields)
  /\ \A i \in DOMAIN invalid_fields : invalid_fields[i] = PathOf(invalid_pos[i])
  /\ \A i, j \in DOMAIN invalid_pos :
       i < j =>
         LET p == invalid_pos[i]
             q == invalid_pos[j]
         IN /\ IndexIn(dequeued, Parent(p)) <= IndexIn(dequeued, Parent(q))
            /\ Len(p) <= Len(q)
            /\ Parent(p) = Parent(q) => LastStep(p) < LastStep(q)

\* a returned call that reported null values of two containers, after a
\* walk in which two containers were on the deque together
C8_Witness ==
  /\ Returned
  /\ \E i, j \in DOMAIN invalid_pos :
       /\ i < j
       /\ Parent(invalid_pos[i]) # Parent(invalid_pos[j])
  /\ \E n \in DOMAIN enqueued :
       n > 1 /\ n + 1 \in DOMAIN enqueued
             /\ Parent(enqueued[n]) = Parent(enqueued[n + 1])

----------------------------------------------------------------------------
(* C9 *)

ContainerPositions == {p \in AllPositions : IsHolder(ValueAt(json_data, p))}

\* C9: when the call has returned, every dict and list of the document, and
\* the root whatever it is, has entered the deque exactly once and left it
\* exactly once, nothing else has, and every value below the root has been
\* looked at exactly once, while its parent was being processed; before that,
\* nothing has entered, left or been looked at more than once.
C9_EveryNodeOnce ==
  /\ \A p \in AllPositions :
       /\ Count(enqueued, p) <= 1
       /\ Count(dequeued, p) <= 1
       /\ Count(PositionsOf(inspected), p) <= 1
  /\ \A n \in DOMAIN inspected :
       /\ inspected[n].pos \in Below
       /\ inspected[n].from = Parent(inspected[n].pos)
       /\ inspected[n].from \in {dequeued[m] : m \in DOMAIN dequeued}
       /\ inspected[n].value = ValueAt(json_data, inspected[n].pos)
  /\ Returned =>
       /\ \A p \in ContainerPositions \cup {<<>>} :
            Count(enqueued, p) = 1 /\ Count(dequeued, p) = 1
       /\ \A n \in DOMAIN enqueued : enqueued[n] \in ContainerPositions \cup {<<>>}
       /\ \A n \in DOMAIN dequeued : dequeued[n] \in ContainerPositions \cup {<<>>}
       /\ \A p \in Below : Count(PositionsOf(inspected), p) = 1
       /\ Len(inspected) = Cardinality(Below)

\* a returned call on a document with a list inside a dict or a dict inside
\* a list, a reported null value and an allowed one
C9_Witness ==
  /\ Returned
  /\ \E p \in ContainerPositions :
       /\ Len(p) >= 1
       /\ NumKids(ValueAt(json_data, p)) >= 1
       /\ ValueAt(json_data, p).kind # ValueAt(json_data, Parent(p)).kind
  /\ invalid_fields # <<>>
  /\ \E p \in NullPositions : Allowed(PathOf(p))

----------------------------------------------------------------------------
(* C10 *)

\* the number of values in x, x included
RECURSIVE Size(_)
Size(x) ==
  IF NumKids(x) = 0 THEN 1
  ELSE LET RECURSIVE Sum(_)
           Sum(i) == IF i = 0 THEN 0 ELSE Size(Child(x, i)) + Sum(i - 1)
       IN 1 + Sum(NumKids(x))

\* the values still to be walked: those of the entries on the deque
RECURSIVE Work(_)
Work(q) == IF q = <<>> THEN 0 ELSE Size(Head(q).item) + Work(Tail(q))

\* C10: the work loop terminates. Every iteration leaves strictly fewer
\* values on the deque and below it than it found, and the call reaches its
\* return.
C10_Terminates ==
  /\ [][(pc = "loop" /\ pc' = "loop") => Work(items_to_check') < Work(items_to_check)]_vars
  /\ <>(pc = "done")

\* a call that has returned after more than one iteration of the loop
C10_Witness ==
  /\ Returned
  /\ Len(dequeued) >= 3
  /\ items_to_check = <<>>

====
